---- MODULE Spec2Model ----
(***************************************************************************)
(* Stage-structured harvesting model of bmarap/harvesting.                *)
(*                                                                         *)
(*   realtime_simulation.py  the incremental driver: SimulationState      *)
(*                           (reset, step), the timer callback animate,   *)
(*                           the Play/Pause and Reset buttons and the     *)
(*                           harvest sliders, text boxes and mode radio.  *)
(*   harvesting.py           the batch projection run_simulation and the  *)
(*                           sliders, text boxes and mode radio that      *)
(*                           recompute it; its widget state is h_..., for *)
(*                           the two programs use the same names.         *)
(*                                                                         *)
(* Numbers.  The programs compute in IEEE doubles.  Here every population  *)
(* count, quota and rate is a fixed-point integer counting units of        *)
(* 1/Scale (1.0 is Scale, 0.5 is Scale \div 2); a product is rounded down  *)
(* to a whole unit, the way a double product is rounded to a double, and   *)
(* sums, differences and max are exact.                                    *)
(***************************************************************************)
EXTENDS Integers, Sequences, FiniteSets, TLC

VARIABLES
    INITIAL_POP,            \* realtime_simulation.py module global (an array)
    sim_state,              \* the SimulationState object
    plot,                   \* what update_plot last drew
    s_val,                  \* s1.val, s2.val, s3.val
    s_valmax,               \* s1.valmax, s2.valmax, s3.valmax
    radio,                  \* radio.value_selected
    t_text,                 \* t1.text, t2.text, t3.text
    updating_from_slider,   \* the module global flag
    s_speed,                \* s_speed.val, frames per second
    interval,               \* ani.event_source.interval, milliseconds
    data,                   \* harvesting.py: the array run_simulation returned
    h_val,                  \* harvesting.py s1.val, s2.val, s3.val
    h_valmax,               \* harvesting.py s1.valmax, s2.valmax, s3.valmax
    h_radio,                \* harvesting.py radio.value_selected
    h_text,                 \* harvesting.py t1.text, t2.text, t3.text
    h_updating_from_slider, \* harvesting.py module global flag
    h_ylim,                 \* harvesting.py upper limit of the y axis
    h_stack,                \* harvesting.py callbacks in progress, innermost
                            \* last
    h_chain,                \* what the callbacks did since the latest user
                            \* action
    call                    \* the latest invocation: the operation, its
                            \* arguments and the sim_state it found

vars == <<INITIAL_POP, sim_state, plot, s_val, s_valmax, radio, t_text,
          updating_from_slider, s_speed, interval, data, h_val, h_valmax,
          h_radio, h_text, h_updating_from_slider, h_ylim, h_stack, h_chain,
          call>>

widgets == <<s_val, s_valmax, radio, t_text, updating_from_slider>>

\* the widgets of harvesting.py and the record of its callbacks
batch == <<h_val, h_valmax, h_radio, h_text, h_updating_from_slider, h_ylim,
           h_stack, h_chain>>

\* what the callbacks of the harvest controls and of the buttons leave alone
rest == <<s_speed, interval, batch>>

-----------------------------------------------------------------------------
(* Bounds of the model *)

\* harvesting.py sets YEARS = 50; fifty years of growth leave TLC's integers,
\* so the model projects over a shorter horizon.
YEARS == 2

\* the timer stops stepping the driver after this many years
MaxSteps == YEARS

-----------------------------------------------------------------------------
(* Fixed-point arithmetic *)

Scale == 10 * 10 * 10

\* x * f for a factor f in units of 1/Scale, rounded down to a unit; split so
\* that no intermediate value is larger than the result
Mul(x, f) == (x \div Scale) * f + ((x % Scale) * f) \div Scale

\* Python's max(0, x)
Max0(x) == IF x > 0 THEN x ELSE 0

MaxOf(a, b) == IF b > a THEN b ELSE a

RECURSIVE SeqMax(_)
SeqMax(s) == IF Len(s) = 1 THEN s[1] ELSE MaxOf(s[1], SeqMax(Tail(s)))

\* np.sum of a vector of three
Sum3(v) == v[1] + v[2] + v[3]

-----------------------------------------------------------------------------
(* 1. Configuration (biological parameters) *)

InitialVector == <<1000 * Scale, 500 * Scale, 200 * Scale>>
F_J == 0
F_S == (8 * Scale) \div 10
F_A == (25 * Scale) \div 10
S_J_to_S == (5 * Scale) \div 10
S_S_to_A == (7 * Scale) \div 10
S_A_surv == (8 * Scale) \div 10

ConstantQuota == "Constant Quota"
Proportional == "Proportional (Uniform)"
Selective == "Selective (Age-Specific)"
Modes == {ConstantQuota, Proportional, Selective}

\* a mode string outside the radio's three labels
UnknownMode == "Unknown"
AnyMode == Modes \cup {UnknownMode}

-----------------------------------------------------------------------------
(* 2. State management: class SimulationState *)

\* a faulty reset that leaves is_running alone
reset_keeping_flag(self) ==
    [current_pop  |-> INITIAL_POP,
     history_j    |-> <<INITIAL_POP[1]>>,
     history_s    |-> <<INITIAL_POP[2]>>,
     history_a    |-> <<INITIAL_POP[3]>>,
     history_tot  |-> <<Sum3(INITIAL_POP)>>,
     time         |-> <<0>>,
     is_running   |-> self.is_running,
     year_counter |-> 0]

\* a faulty reset that forgets the step counter
reset_keeping_counter(self) ==
    [current_pop  |-> INITIAL_POP,
     history_j    |-> <<INITIAL_POP[1]>>,
     history_s    |-> <<INITIAL_POP[2]>>,
     history_a    |-> <<INITIAL_POP[3]>>,
     history_tot  |-> <<Sum3(INITIAL_POP)>>,
     time         |-> <<0>>,
     is_running   |-> FALSE,
     year_counter |-> self.year_counter]

\* a faulty reset that appends the initial entry to the lists it should
\* replace
reset_appending(self) ==
    [current_pop  |-> INITIAL_POP,
     history_j    |-> Append(self.history_j, INITIAL_POP[1]),
     history_s    |-> Append(self.history_s, INITIAL_POP[2]),
     history_a    |-> Append(self.history_a, INITIAL_POP[3]),
     history_tot  |-> Append(self.history_tot, Sum3(INITIAL_POP)),
     time         |-> Append(self.time, 0),
     is_running   |-> FALSE,
     year_counter |-> 0]

\* SimulationState.reset: every attribute is assigned afresh
reset(self) ==
    [current_pop  |-> INITIAL_POP,
     history_j    |-> <<INITIAL_POP[1]>>,
     history_s    |-> <<INITIAL_POP[2]>>,
     history_a    |-> <<INITIAL_POP[3]>>,
     history_tot  |-> <<Sum3(INITIAL_POP)>>,
     time         |-> <<0>>,
     is_running   |-> FALSE,
     year_counter |-> 0]

\* a faulty harvest whose Constant Quota branch lacks max(0, ...)
step_survivors_unclamped(current, val_j, val_s, val_a, mode) ==
    IF mode = ConstantQuota
    THEN <<current[1] - val_j, current[2] - val_s, current[3] - val_a>>
    ELSE IF mode = Proportional
    THEN <<Mul(current[1], Scale - val_j), Mul(current[2], Scale - val_j),
           Mul(current[3], Scale - val_j)>>
    ELSE IF mode = Selective
    THEN <<Mul(current[1], Scale - val_j), Mul(current[2], Scale - val_s),
           Mul(current[3], Scale - val_a)>>
    ELSE <<0, 0, 0>>

\* a faulty harvest whose Proportional branch keeps the rate harvested
\* instead of the rest
step_survivors_rate_kept(current, val_j, val_s, val_a, mode) ==
    IF mode = ConstantQuota
    THEN <<Max0(current[1] - val_j), Max0(current[2] - val_s),
           Max0(current[3] - val_a)>>
    ELSE IF mode = Proportional
    THEN <<Mul(current[1], val_j), Mul(current[2], val_j),
           Mul(current[3], val_j)>>
    ELSE IF mode = Selective
    THEN <<Mul(current[1], Scale - val_j), Mul(current[2], Scale - val_s),
           Mul(current[3], Scale - val_a)>>
    ELSE <<0, 0, 0>>

\* a faulty harvest whose Proportional branch reads a rate per stage
step_survivors_per_stage(current, val_j, val_s, val_a, mode) ==
    IF mode = ConstantQuota
    THEN <<Max0(current[1] - val_j), Max0(current[2] - val_s),
           Max0(current[3] - val_a)>>
    ELSE IF mode \in {Proportional, Selective}
    THEN <<Mul(current[1], Scale - val_j), Mul(current[2], Scale - val_s),
           Mul(current[3], Scale - val_a)>>
    ELSE <<0, 0, 0>>

\* SimulationState.step, the harvest: survivors starts as zeros(3) and none of
\* the branches is taken for a mode that is none of the three
step_survivors(current, val_j, val_s, val_a, mode) ==
    IF mode = ConstantQuota
    THEN <<Max0(current[1] - val_j), Max0(current[2] - val_s),
           Max0(current[3] - val_a)>>
    ELSE IF mode = Proportional
    THEN LET global_rate == val_j
         IN  <<Mul(current[1], Scale - global_rate),
               Mul(current[2], Scale - global_rate),
               Mul(current[3], Scale - global_rate)>>
    ELSE IF mode = Selective
    THEN <<Mul(current[1], Scale - val_j), Mul(current[2], Scale - val_s),
           Mul(current[3], Scale - val_a)>>
    ELSE <<0, 0, 0>>

\* a faulty progression whose adult class forgets the adults that survive
step_progression_no_adult_survival(survivors) ==
    LET next_j == Mul(survivors[1], F_J) + Mul(survivors[2], F_S)
                    + Mul(survivors[3], F_A)
        next_s == Mul(survivors[1], S_J_to_S)
        next_a == Mul(survivors[2], S_S_to_A)
    IN  <<next_j, next_s, next_a>>

\* SimulationState.step, the biological progression
step_progression(survivors) ==
    LET next_j == Mul(survivors[1], F_J) + Mul(survivors[2], F_S)
                    + Mul(survivors[3], F_A)
        next_s == Mul(survivors[1], S_J_to_S)
        next_a == Mul(survivors[2], S_S_to_A) + Mul(survivors[3], S_A_surv)
    IN  <<next_j, next_s, next_a>>

\* a faulty bookkeeping that overwrites the latest entry of the stage lists
\* instead of appending to them
step_record_overwriting(self, next) ==
    LET year == self.year_counter + 1
    IN  [self EXCEPT !.current_pop  = next,
                     !.year_counter = year,
                     !.history_j    = [@ EXCEPT ![Len(@)] = next[1]],
                     !.history_s    = [@ EXCEPT ![Len(@)] = next[2]],
                     !.history_a    = [@ EXCEPT ![Len(@)] = next[3]],
                     !.history_tot  = [@ EXCEPT ![Len(@)] = Sum3(next)],
                     !.time         = [@ EXCEPT ![Len(@)] = year]]

\* a faulty bookkeeping that totals the population before current_pop is
\* replaced
step_record_stale_total(self, next) ==
    LET year == self.year_counter + 1
    IN  [self EXCEPT !.current_pop  = next,
                     !.year_counter = year,
                     !.history_j    = Append(@, next[1]),
                     !.history_s    = Append(@, next[2]),
                     !.history_a    = Append(@, next[3]),
                     !.history_tot  = Append(@, Sum3(self.current_pop)),
                     !.time         = Append(@, year)]

\* a faulty bookkeeping that records the year before it counts it
step_record_year_before_count(self, next) ==
    LET year == self.year_counter + 1
    IN  [self EXCEPT !.current_pop  = next,
                     !.year_counter = year,
                     !.history_j    = Append(@, next[1]),
                     !.history_s    = Append(@, next[2]),
                     !.history_a    = Append(@, next[3]),
                     !.history_tot  = Append(@, Sum3(next)),
                     !.time         = Append(@, self.year_counter)]

\* SimulationState.step, the bookkeeping
step_record(self, next) ==
    LET year == self.year_counter + 1
    IN  [self EXCEPT !.current_pop  = next,
                     !.year_counter = year,
                     !.history_j    = Append(@, next[1]),
                     !.history_s    = Append(@, next[2]),
                     !.history_a    = Append(@, next[3]),
                     !.history_tot  = Append(@, Sum3(next)),
                     !.time         = Append(@, year)]

\* a faulty step that honours the run flag itself
step_when_running(self, val_j, val_s, val_a, mode) ==
    IF self.is_running
    THEN step_record(self,
             step_progression(
                 step_survivors(self.current_pop, val_j, val_s, val_a, mode)))
    ELSE self

\* SimulationState.step
step(self, val_j, val_s, val_a, mode) ==
    step_record(self,
        step_progression(
            step_survivors(self.current_pop, val_j, val_s, val_a, mode)))

-----------------------------------------------------------------------------
(* harvesting.py: the batch projection *)

\* a faulty harvest whose Selective branch applies the first rate to every
\* stage
run_survivors_one_rate(current_pop, val_j, val_s, val_a, mode) ==
    IF mode = ConstantQuota
    THEN <<Max0(current_pop[1] - val_j), Max0(current_pop[2] - val_s),
           Max0(current_pop[3] - val_a)>>
    ELSE IF mode \in {Proportional, Selective}
    THEN <<Mul(current_pop[1], Scale - val_j),
           Mul(current_pop[2], Scale - val_j),
           Mul(current_pop[3], Scale - val_j)>>
    ELSE <<0, 0, 0>>

\* run_simulation, the harvest of one year
run_survivors(current_pop, val_j, val_s, val_a, mode) ==
    IF mode = ConstantQuota
    THEN <<Max0(current_pop[1] - val_j), Max0(current_pop[2] - val_s),
           Max0(current_pop[3] - val_a)>>
    ELSE IF mode = Proportional
    THEN LET global_rate == val_j
         IN  <<Mul(current_pop[1], Scale - global_rate),
               Mul(current_pop[2], Scale - global_rate),
               Mul(current_pop[3], Scale - global_rate)>>
    ELSE IF mode = Selective
    THEN <<Mul(current_pop[1], Scale - val_j),
           Mul(current_pop[2], Scale - val_s),
           Mul(current_pop[3], Scale - val_a)>>
    ELSE <<0, 0, 0>>

\* run_simulation, the progression of one year
run_progression(survivors) ==
    LET next_j == Mul(survivors[1], F_J) + Mul(survivors[2], F_S)
                    + Mul(survivors[3], F_A)
        next_s == Mul(survivors[1], S_J_to_S)
        next_a == Mul(survivors[2], S_S_to_A) + Mul(survivors[3], S_A_surv)
    IN  <<next_j, next_s, next_a>>

\* run_simulation, the loop for t in range(YEARS): history holds rows 0..t;
\* the vector of year t + 1 is computed once, then recorded and carried on
RECURSIVE run_loop(_, _, _, _, _, _, _)
run_loop(t, history, current_pop, val_j, val_s, val_a, mode) ==
    IF t = YEARS THEN history
    ELSE LET computed == {run_progression(
                              run_survivors(current_pop, val_j, val_s, val_a,
                                            mode))}
         IN  CHOOSE rows \in {run_loop(t + 1, Append(history, next), next,
                                       val_j, val_s, val_a, mode) :
                                  next \in computed} : TRUE

\* run_simulation: YEARS + 1 rows, row 0 the initial population
run_simulation(val_j, val_s, val_a, mode) ==
    run_loop(0, <<InitialVector>>, InitialVector, val_j, val_s, val_a, mode)

-----------------------------------------------------------------------------
(* 5. Logic and animation of realtime_simulation.py *)

\* update_plot: the line data, the axis limits and the title it sets
update_plot(self) ==
    [points |-> Len(self.time),
     xlim   |-> IF self.year_counter > 40
                THEN <<self.year_counter - 40, self.year_counter + 10>>
                ELSE <<0, 50>>,
     ylim   |-> Mul(MaxOf(200 * Scale, SeqMax(self.history_tot)),
                    (12 * Scale) \div 10),
     status |-> IF self.is_running THEN "RUNNING" ELSE "PAUSED",
     year   |-> self.year_counter]

\* the figure as section 3 of the script leaves it: empty lines and a title
\* without a year
InitialPlot ==
    [points |-> 0, xlim |-> <<0, 50>>, ylim |-> 2000 * Scale,
     status |-> "Paused", year |-> -1]

\* a faulty toggle that only ever starts the driver
toggle_start_only(self) == [self EXCEPT !.is_running = TRUE]

\* toggle_play, its assignment to sim_state
toggle(self) == [self EXCEPT !.is_running = ~self.is_running]

\* A text box holds a string; the model keeps what float(text) makes of it:
\* ok is FALSE for a string float() rejects, val is the number otherwise, and
\* digits is the number of decimals the string shows, so "0" and "0.00" are
\* two strings.
\* f"{int(v)}": int() drops the fraction
FormatInt(v) ==
    [ok |-> TRUE, digits |-> 0,
     val |-> IF v >= 0 THEN (v \div Scale) * Scale
             ELSE -(((-v) \div Scale) * Scale)]

\* f"{v:.2f}": rounded to hundredths
FormatFixed2(v) ==
    LET hundredth == Scale \div 100
    IN  [ok |-> TRUE, digits |-> 2,
         val |-> ((2 * v + hundredth) \div (2 * hundredth)) * hundredth]

\* sync_text: the three strings it writes; each TextBox.set_val runs
\* submit_text, which returns at once because updating_from_slider is set
sync_text(vals, mode) ==
    [i \in 1..3 |-> IF mode = ConstantQuota THEN FormatInt(vals[i])
                    ELSE FormatFixed2(vals[i])]

\* the record of an invocation that passes no harvest parameters on
Called(op) ==
    [op |-> op, stepped |-> FALSE, args |-> <<0, 0, 0>>, mode |-> "",
     before |-> sim_state]

\* the record of an invocation that passes harvest parameters and a mode to
\* step or to run_simulation
CalledWith(op, val_j, val_s, val_a, mode) ==
    [op |-> op, stepped |-> op /= "run_simulation",
     args |-> <<val_j, val_s, val_a>>, mode |-> mode, before |-> sim_state]

\* a faulty animate without the early return
animate_unguarded ==
    /\ sim_state.year_counter < MaxSteps
    /\ sim_state' = step(sim_state, s_val[1], s_val[2], s_val[3], radio)
    /\ plot' = update_plot(sim_state')
    /\ call' = [op |-> "animate", stepped |-> TRUE,
                args |-> <<s_val[1], s_val[2], s_val[3]>>, mode |-> radio,
                before |-> sim_state]
    /\ UNCHANGED <<INITIAL_POP, rest, s_val, s_valmax, radio, t_text,
                   updating_from_slider, data>>

\* a faulty animate that steps the driver in its first year only
animate_first_year_only ==
    /\ sim_state.is_running => sim_state.year_counter < MaxSteps
    /\ IF ~sim_state.is_running \/ sim_state.year_counter > 0
       THEN /\ UNCHANGED <<sim_state, plot>>
            /\ call' = Called("animate")
       ELSE /\ sim_state' = step(sim_state, s_val[1], s_val[2], s_val[3], radio)
            /\ plot' = update_plot(sim_state')
            /\ call' = CalledWith("animate", s_val[1], s_val[2], s_val[3], radio)
    /\ UNCHANGED <<INITIAL_POP, rest, widgets, data>>

\* the FuncAnimation timer fires: animate(i)
animate ==
    /\ sim_state.is_running => sim_state.year_counter < MaxSteps
    /\ IF ~sim_state.is_running
       THEN /\ UNCHANGED <<sim_state, plot>>
            /\ call' = Called("animate")
       ELSE /\ sim_state' = step(sim_state, s_val[1], s_val[2], s_val[3], radio)
            /\ plot' = update_plot(sim_state')
            /\ call' = CalledWith("animate", s_val[1], s_val[2], s_val[3], radio)
    /\ UNCHANGED <<INITIAL_POP, rest, widgets, data>>

\* the Play/Pause button: toggle_play(event)
toggle_play ==
    /\ sim_state' = toggle(sim_state)
    /\ plot' = update_plot(sim_state')
    /\ call' = Called("toggle_play")
    /\ UNCHANGED <<INITIAL_POP, rest, widgets, data>>

\* the Reset button: reset_sim(event)
reset_sim ==
    /\ sim_state' = reset(sim_state)
    /\ plot' = update_plot(sim_state')
    /\ call' = Called("reset_sim")
    /\ UNCHANGED <<INITIAL_POP, rest, widgets, data>>

\* where the mouse can leave a slider: its two ends
SliderStops(valmax) == {0, valmax}

\* the user drags slider i to v: Slider.set_val(v), then sync_text(v)
drag_slider(i, v) ==
    /\ v /= s_val[i]
    /\ s_val' = [s_val EXCEPT ![i] = v]
    /\ t_text' = sync_text(s_val', radio)
    /\ updating_from_slider' = FALSE
    /\ call' = Called("sync_text")
    /\ UNCHANGED <<INITIAL_POP, rest, sim_state, plot, s_valmax, radio, data>>

\* what the user types into a text box: a number below the slider's range,
\* a number above it
TypedTexts ==
    {[ok |-> TRUE, digits |-> 0, val |-> -5 * Scale],
     [ok |-> TRUE, digits |-> 0, val |-> 5000 * Scale]}

\* a faulty submit_text that clamps to the upper end of the slider only
submit_text_no_lower_clamp(i, text) ==
    /\ ~updating_from_slider
    /\ IF ~text.ok
       THEN /\ t_text' = [t_text EXCEPT ![i] = text]
            /\ UNCHANGED s_val
       ELSE LET val == IF s_valmax[i] < text.val THEN s_valmax[i]
                       ELSE text.val
            IN  /\ s_val' = [s_val EXCEPT ![i] = val]
                /\ t_text' = sync_text(s_val', radio)
    /\ updating_from_slider' = FALSE
    /\ call' = Called("submit_text")
    /\ UNCHANGED <<INITIAL_POP, rest, sim_state, plot, s_valmax, radio, data>>

\* the user submits text in box i: submit_text(text, slider)
submit_text(i, text) ==
    /\ ~updating_from_slider
    /\ IF ~text.ok
       THEN /\ t_text' = [t_text EXCEPT ![i] = text]
            /\ UNCHANGED s_val
       ELSE LET val == MaxOf(0, IF s_valmax[i] < text.val THEN s_valmax[i]
                                ELSE text.val)
            IN  /\ s_val' = [s_val EXCEPT ![i] = val]
                /\ t_text' = sync_text(s_val', radio)
    /\ updating_from_slider' = FALSE
    /\ call' = Called("submit_text")
    /\ UNCHANGED <<INITIAL_POP, rest, sim_state, plot, s_valmax, radio, data>>

\* a faulty change_mode that also restarts the simulation
change_mode_resetting(label) ==
    /\ radio' = label
    /\ s_val' = [i \in 1..3 |-> 0]
    /\ t_text' = sync_text(s_val', label)
    /\ s_valmax' =
         IF label = ConstantQuota THEN [i \in 1..3 |-> 800 * Scale]
         ELSE IF label = Proportional THEN [s_valmax EXCEPT ![1] = Scale]
         ELSE [i \in 1..3 |-> Scale]
    /\ updating_from_slider' = FALSE
    /\ sim_state' = reset(sim_state)
    /\ call' = Called("change_mode")
    /\ UNCHANGED <<INITIAL_POP, rest, plot, data>>

\* the user clicks a radio button: value_selected is the label, then
\* change_mode(label)
change_mode(label) ==
    /\ radio' = label
    /\ s_val' = [i \in 1..3 |-> 0]
    /\ t_text' = sync_text(s_val', label)
    /\ s_valmax' =
         IF label = ConstantQuota THEN [i \in 1..3 |-> 800 * Scale]
         ELSE IF label = Proportional THEN [s_valmax EXCEPT ![1] = Scale]
         ELSE [i \in 1..3 |-> Scale]
    /\ updating_from_slider' = FALSE
    /\ call' = Called("change_mode")
    /\ UNCHANGED <<INITIAL_POP, rest, sim_state, plot, data>>

\* where the mouse can leave the speed slider: its two ends, 1 and 10
SpeedStops == {1, 10}

\* the user drags the speed slider to val: update_speed(val)
update_speed(val) ==
    /\ val /= s_speed
    /\ s_speed' = val
    /\ interval' = (1000 * Scale) \div val
    /\ call' = Called("update_speed")
    /\ UNCHANGED <<INITIAL_POP, sim_state, plot, widgets, data, batch>>

-----------------------------------------------------------------------------
(* 5. Logic of harvesting.py, one callback step at a time.  A callback runs  *)
(* inside the widget call that triggered it, so the callbacks in progress    *)
(* form a stack; the user acts when none is in progress.                     *)

\* what harvesting.py never touches
realtime == <<INITIAL_POP, sim_state, plot, widgets, s_speed, interval>>

\* np.max(data)
DataMax(d) ==
    LET entries == {d[t][k] : t \in 1..Len(d), k \in 1..3}
    IN  CHOOSE m \in entries : \A x \in entries : x <= m

\* the filler for the text argument of a callback that takes none
NoText == [ok |-> FALSE, digits |-> 0, val |-> 0]

\* a callback in progress: the function, the statement it is at and its
\* arguments (text and slider for submit_text, label for change_mode); echo
\* tells a submit_text that TextBox.set_val started from one the user started
Frame(fn, text, slider, label, echo) ==
    [fn |-> fn, pc |-> 1, text |-> text, slider |-> slider, label |-> label,
     echo |-> echo]

UpdateFrame == Frame("update_simulation", NoText, 0, "", FALSE)

\* what the callbacks did since the latest user action: the run_simulation
\* calls, the submit_text calls the flag stopped, and the Slider.set_val
\* calls made for a text the slider handler wrote
Chain(origin) ==
    [origin |-> origin, runs |-> 0, suppressed |-> 0, echo_set_vals |-> 0]

h_Idle == h_stack = <<>>
h_Top == h_stack[Len(h_stack)]
h_At(fn, pcs) == ~h_Idle /\ h_Top.fn = fn /\ h_Top.pc \in pcs
h_Return == SubSeq(h_stack, 1, Len(h_stack) - 1)
h_Goto(pc) == [h_stack EXCEPT ![Len(h_stack)].pc = pc]
h_Invoke(pc, frame) == Append(h_Goto(pc), frame)

\* update_simulation up to ax.set_ylim: the flag, the projection, the y axis
h_update_simulation ==
    /\ h_At("update_simulation", {1})
    /\ h_updating_from_slider' = TRUE
    /\ data' = run_simulation(h_val[1], h_val[2], h_val[3], h_radio)
    /\ h_ylim' = Mul(MaxOf(10 * Scale, DataMax(data')), (11 * Scale) \div 10)
    /\ call' = CalledWith("run_simulation", h_val[1], h_val[2], h_val[3],
                          h_radio)
    /\ h_chain' = [h_chain EXCEPT !.runs = @ + 1]
    /\ h_stack' = h_Goto(2)
    /\ UNCHANGED <<realtime, h_val, h_valmax, h_radio, h_text>>

\* update_simulation, t1.set_val, t2.set_val, t3.set_val in turn:
\* TextBox.set_val returns when the box shows that string already, and
\* otherwise shows it and runs the box's submit_text
h_set_text ==
    /\ h_At("update_simulation", 2..4)
    /\ LET i == h_Top.pc - 1
           new == IF h_radio = ConstantQuota THEN FormatInt(h_val[i])
                  ELSE FormatFixed2(h_val[i])
       IN  IF h_text[i] = new
           THEN /\ h_stack' = h_Goto(h_Top.pc + 1)
                /\ UNCHANGED h_text
           ELSE /\ h_text' = [h_text EXCEPT ![i] = new]
                /\ h_stack' = h_Invoke(h_Top.pc + 1,
                                       Frame("submit_text", new, i, "", TRUE))
    /\ UNCHANGED <<realtime, data, call, h_val, h_valmax, h_radio,
                   h_updating_from_slider, h_ylim, h_chain>>

\* update_simulation, its end: the flag is cleared
h_update_done ==
    /\ h_At("update_simulation", {5})
    /\ h_updating_from_slider' = FALSE
    /\ h_stack' = h_Return
    /\ UNCHANGED <<realtime, data, call, h_val, h_valmax, h_radio, h_text,
                   h_ylim, h_chain>>

\* a faulty submit_text without the check of the flag
h_submit_text_unguarded ==
    /\ h_At("submit_text", {1})
    /\ IF ~h_Top.text.ok
       THEN /\ h_stack' = h_Return
            /\ UNCHANGED <<h_val, h_chain>>
       ELSE LET i == h_Top.slider
                low == IF h_Top.text.val < 0 THEN 0 ELSE h_Top.text.val
                val == IF low > h_valmax[i] THEN h_valmax[i] ELSE low
            IN  /\ h_val' = [h_val EXCEPT ![i] = val]
                /\ h_chain' = [h_chain EXCEPT !.echo_set_vals =
                                   @ + IF h_Top.echo THEN 1 ELSE 0]
                /\ h_stack' = h_Invoke(2, UpdateFrame)
    /\ UNCHANGED <<realtime, data, call, h_valmax, h_radio, h_text,
                   h_updating_from_slider, h_ylim>>

\* submit_text(text, slider): return under the flag, pass on a ValueError,
\* otherwise clamp and slider.set_val(val), which runs update_simulation
h_submit_text ==
    /\ h_At("submit_text", {1})
    /\ IF h_updating_from_slider
       THEN /\ h_stack' = h_Return
            /\ h_chain' = [h_chain EXCEPT !.suppressed = @ + 1]
            /\ UNCHANGED h_val
       ELSE IF ~h_Top.text.ok
       THEN /\ h_stack' = h_Return
            /\ UNCHANGED <<h_val, h_chain>>
       ELSE LET i == h_Top.slider
                low == IF h_Top.text.val < 0 THEN 0 ELSE h_Top.text.val
                val == IF low > h_valmax[i] THEN h_valmax[i] ELSE low
            IN  /\ h_val' = [h_val EXCEPT ![i] = val]
                /\ h_chain' = [h_chain EXCEPT !.echo_set_vals =
                                   @ + IF h_Top.echo THEN 1 ELSE 0]
                /\ h_stack' = h_Invoke(2, UpdateFrame)
    /\ UNCHANGED <<realtime, data, call, h_valmax, h_radio, h_text,
                   h_updating_from_slider, h_ylim>>

\* change_mode, s1.set_val(0), s2.set_val(0), s3.set_val(0) in turn: each
\* runs update_simulation
h_change_mode_reset ==
    /\ h_At("change_mode", 1..3)
    /\ h_val' = [h_val EXCEPT ![h_Top.pc] = 0]
    /\ h_stack' = h_Invoke(h_Top.pc + 1, UpdateFrame)
    /\ UNCHANGED <<realtime, data, call, h_valmax, h_radio, h_text,
                   h_updating_from_slider, h_ylim, h_chain>>

\* change_mode, the limits of the label and the closing update_simulation()
h_change_mode_limits ==
    /\ h_At("change_mode", {4})
    /\ h_valmax' =
         IF h_Top.label = ConstantQuota THEN [i \in 1..3 |-> 800 * Scale]
         ELSE IF h_Top.label = Proportional THEN [h_valmax EXCEPT ![1] = Scale]
         ELSE [i \in 1..3 |-> Scale]
    /\ h_stack' = h_Invoke(5, UpdateFrame)
    /\ UNCHANGED <<realtime, data, call, h_val, h_radio, h_text,
                   h_updating_from_slider, h_ylim, h_chain>>

\* submit_text after slider.set_val and change_mode after update_simulation()
\* have nothing left to do
h_return ==
    /\ h_At("submit_text", {2}) \/ h_At("change_mode", {5})
    /\ h_stack' = h_Return
    /\ UNCHANGED <<realtime, data, call, h_val, h_valmax, h_radio, h_text,
                   h_updating_from_slider, h_ylim, h_chain>>

\* the next statement of the innermost callback
h_callback ==
    \/ h_update_simulation
    \/ h_set_text
    \/ h_update_done
    \/ h_submit_text
    \/ h_change_mode_reset
    \/ h_change_mode_limits
    \/ h_return

\* where the mouse leaves a slider of harvesting.py: its lower end, and its
\* upper end under a rate range or two animals under a quota range
h_SliderStops(valmax) == {0, IF valmax > Scale THEN 2 * Scale ELSE valmax}

\* the user drags slider i to v: Slider.set_val runs update_simulation
h_drag_slider(i, v) ==
    /\ h_Idle
    /\ v /= h_val[i]
    /\ h_val' = [h_val EXCEPT ![i] = v]
    /\ h_chain' = Chain("slider")
    /\ h_stack' = <<UpdateFrame>>
    /\ UNCHANGED <<realtime, data, call, h_valmax, h_radio, h_text,
                   h_updating_from_slider, h_ylim>>

\* what the user types into a text box of harvesting.py: "-5", "2" and a
\* string that is no number
h_TypedTexts ==
    {[ok |-> TRUE, digits |-> 0, val |-> -5 * Scale],
     [ok |-> TRUE, digits |-> 0, val |-> 2 * Scale],
     [ok |-> FALSE, digits |-> 0, val |-> 1]}

\* the user types text into box i and presses Enter: the box's submit_text
h_type_text(i, text) ==
    /\ h_Idle
    /\ h_text' = [h_text EXCEPT ![i] = text]
    /\ h_chain' = Chain("text")
    /\ h_stack' = <<Frame("submit_text", text, i, "", FALSE)>>
    /\ UNCHANGED <<realtime, data, call, h_val, h_valmax, h_radio,
                   h_updating_from_slider, h_ylim>>

\* the user clicks a radio button: RadioButtons sets value_selected, then
\* runs change_mode(label)
h_click_radio(label) ==
    /\ h_Idle
    /\ h_radio' = label
    /\ h_chain' = Chain("mode")
    /\ h_stack' = <<Frame("change_mode", NoText, 0, label, FALSE)>>
    /\ UNCHANGED <<realtime, data, call, h_val, h_valmax, h_text,
                   h_updating_from_slider, h_ylim>>

-----------------------------------------------------------------------------
(* The realtime program *)

Init ==
    /\ INITIAL_POP = InitialVector
    /\ sim_state = [current_pop  |-> InitialVector,
                    history_j    |-> <<InitialVector[1]>>,
                    history_s    |-> <<InitialVector[2]>>,
                    history_a    |-> <<InitialVector[3]>>,
                    history_tot  |-> <<Sum3(InitialVector)>>,
                    time         |-> <<0>>,
                    is_running   |-> FALSE,
                    year_counter |-> 0]
    /\ plot = InitialPlot
    /\ s_val = [i \in 1..3 |-> 0]
    /\ s_valmax = [i \in 1..3 |-> Scale]
    /\ radio = Selective
    /\ t_text = [i \in 1..3 |-> FormatFixed2(0)]
    /\ updating_from_slider = FALSE
    /\ s_speed = 2
    /\ interval = 500 * Scale
    /\ data = run_simulation(0, 0, 0, Selective)
    /\ h_val = [i \in 1..3 |-> 0]
    /\ h_valmax = [i \in 1..3 |-> Scale]
    /\ h_radio = Selective
    /\ h_text = [i \in 1..3 |-> FormatFixed2(0)]
    /\ h_updating_from_slider = FALSE
    /\ h_ylim = Mul(DataMax(run_simulation(0, 0, 0, Selective)),
                    (12 * Scale) \div 10)
    /\ h_stack = <<>>
    /\ h_chain = Chain("none")
    /\ call = [op |-> "init", stepped |-> FALSE, args |-> <<0, 0, 0>>,
               mode |-> "", before |-> sim_state]

Next ==
    \/ animate
    \/ toggle_play
    \/ reset_sim
    \/ \E i \in 1..3 : \E v \in SliderStops(s_valmax[i]) : drag_slider(i, v)
    \/ \E i \in 1..3 : \E text \in TypedTexts : submit_text(i, text)
    \/ \E label \in Modes : change_mode(label)
    \/ \E val \in SpeedStops : update_speed(val)

Spec == Init /\ [][Next]_vars

\* The timer of FuncAnimation fires every interval milliseconds for as long
\* as the figure is shown, hence the fairness of animate.
SpecLive == Init /\ [][Next]_vars /\ WF_vars(animate)

-----------------------------------------------------------------------------
(* The batch program: the event loop of harvesting.py.  A callback that has *)
(* started runs its next statement, hence the fairness of h_callback.       *)

NextBatch ==
    \/ \E i \in 1..3 : \E v \in h_SliderStops(h_valmax[i]) : h_drag_slider(i, v)
    \/ \E i \in 1..3 : \E text \in h_TypedTexts : h_type_text(i, text)
    \/ \E label \in Modes : h_click_radio(label)
    \/ h_callback

SpecBatch == Init /\ [][NextBatch]_vars /\ WF_vars(h_callback)

-----------------------------------------------------------------------------
(* The driver and the projection under direct calls *)

Half == Scale \div 2

\* harvest parameters inside the range of each mode: counts from 0 for
\* Constant Quota, rates from 0 to 1 for the other two
QuotaParams ==
    {<<0, 0, 0>>, <<100 * Scale, 0, 0>>, <<0, 800 * Scale, 800 * Scale>>,
     <<800 * Scale, 800 * Scale, 800 * Scale>>}
RateParams ==
    {<<0, 0, 0>>, <<Half, 0, Scale>>, <<Scale, Half, Half>>,
     <<Scale, Scale, Scale>>}
InRangeParams(mode) ==
    IF mode = ConstantQuota THEN QuotaParams
    ELSE IF mode \in Modes THEN RateParams
    ELSE {<<0, 0, 0>>, <<Half, 0, Scale>>}

\* a caller invokes sim_state.step(val_j, val_s, val_a, mode)
call_step(val_j, val_s, val_a, mode) ==
    /\ sim_state.year_counter < MaxSteps
    /\ sim_state' = step(sim_state, val_j, val_s, val_a, mode)
    /\ call' = CalledWith("step", val_j, val_s, val_a, mode)
    /\ UNCHANGED <<INITIAL_POP, rest, plot, widgets, data>>

\* a caller invokes run_simulation(val_j, val_s, val_a, mode)
call_run_simulation(val_j, val_s, val_a, mode) ==
    /\ data' = run_simulation(val_j, val_s, val_a, mode)
    /\ call' = CalledWith("run_simulation", val_j, val_s, val_a, mode)
    /\ UNCHANGED <<INITIAL_POP, rest, sim_state, plot, widgets>>

NextAPI ==
    \/ \E mode \in AnyMode : \E h \in InRangeParams(mode) :
           call_step(h[1], h[2], h[3], mode)
    \/ \E mode \in AnyMode : \E h \in InRangeParams(mode) :
           call_run_simulation(h[1], h[2], h[3], mode)
    \/ toggle_play
    \/ reset_sim

SpecAPI == Init /\ [][NextAPI]_vars

-----------------------------------------------------------------------------
(* The projection, then the driver stepped with the same parameters *)

\* any counts for Constant Quota; any rates for the other two, a rate above
\* 1 among them
EquivValues(mode) ==
    IF mode = ConstantQuota THEN {0, 100 * Scale, 800 * Scale}
    ELSE {0, Half, Scale, 2 * Scale}

NextEquiv ==
    \/ \E mode \in Modes : \E val_j, val_s, val_a \in EquivValues(mode) :
           /\ sim_state.year_counter = 0
           /\ call_run_simulation(val_j, val_s, val_a, mode)
    \/ /\ call.op \in {"run_simulation", "step"}
       /\ call_step(call.args[1], call.args[2], call.args[3], call.mode)
    \/ reset_sim

SpecEquiv == Init /\ [][NextEquiv]_vars

-----------------------------------------------------------------------------
(* Claims *)

\* the five parallel lists of a SimulationState, entry t of each
Entry(self, t) ==
    <<self.history_j[t], self.history_s[t], self.history_a[t]>>

\* list is shorter with exactly one entry appended
Extends(list, shorter) ==
    /\ Len(list) = Len(shorter) + 1
    /\ SubSeq(list, 1, Len(shorter)) = shorter

\* each of the five lists of self is that of other with one entry appended
Appended(self, other) ==
    /\ Extends(self.history_j, other.history_j)
    /\ Extends(self.history_s, other.history_s)
    /\ Extends(self.history_a, other.history_a)
    /\ Extends(self.history_tot, other.history_tot)
    /\ Extends(self.time, other.time)

\* one of the five lists of self is shorter than that of other
Shrunk(self, other) ==
    \/ Len(self.history_j) < Len(other.history_j)
    \/ Len(self.history_s) < Len(other.history_s)
    \/ Len(self.history_a) < Len(other.history_a)
    \/ Len(self.history_tot) < Len(other.history_tot)
    \/ Len(self.time) < Len(other.time)

NonNegative(v) == v[1] >= 0 /\ v[2] >= 0 /\ v[3] >= 0

C2_NonNegative ==
    /\ NonNegative(sim_state.current_pop)
    /\ \A t \in 1..Len(sim_state.history_j) : NonNegative(Entry(sim_state, t))
    /\ \A t \in 1..Len(data) : NonNegative(data[t])

\* a Constant Quota step asked for more sub-adults and adults than there were
C2_Witness ==
    /\ call.op = "step"
    /\ call.mode = ConstantQuota
    /\ call.args[2] > call.before.current_pop[2]
    /\ call.args[3] > call.before.current_pop[3]
    /\ sim_state.current_pop[2] > 0

\* C3: the rows of run_simulation are, index by index from the initial
\* vector on, the history of a freshly reset driver stepped with the same
\* parameters and mode, and after YEARS steps the two are equally long.
C3_BatchEqualsIncremental ==
    call.op = "step" =>
        /\ Len(sim_state.history_j) <= Len(data)
        /\ \A t \in 1..Len(sim_state.history_j) : Entry(sim_state, t) = data[t]
        /\ sim_state.year_counter = YEARS =>
               Len(sim_state.history_j) = Len(data)

\* the driver has taken YEARS steps in Selective mode with three different
\* rates
C3_Witness ==
    /\ call.op = "step"
    /\ sim_state.year_counter = YEARS
    /\ call.mode = Selective
    /\ call.args = <<Half, Scale, 0>>
    /\ Entry(sim_state, YEARS + 1) = data[YEARS + 1]

\* the state a SimulationState has on construction
Fresh(self) ==
    /\ self.current_pop = InitialVector
    /\ self.year_counter = 0
    /\ self.history_j = <<InitialVector[1]>>
    /\ self.history_s = <<InitialVector[2]>>
    /\ self.history_a = <<InitialVector[3]>>
    /\ self.history_tot = <<Sum3(InitialVector)>>
    /\ self.time = <<0>>

\* C4: on construction and after every reset the current vector is the
\* configured initial vector, the step counter is 0 and the history is the
\* one entry (0, initial vector); the configured vector itself never changes.
C4_ResetRestoresInitial ==
    /\ INITIAL_POP = InitialVector
    /\ call.op \in {"init", "reset_sim"} => Fresh(sim_state)

\* the Reset button was pressed after two steps
C4_Witness ==
    /\ call.op = "reset_sim"
    /\ call.before.year_counter >= 2
    /\ call.before.current_pop /= InitialVector
    /\ Fresh(sim_state)

\* C5: toggle_play flips the run flag and changes nothing else of the
\* driver, and toggling twice gives back the state toggled from.
C5_ToggleFlipsOnlyRunFlag ==
    /\ call.op = "toggle_play" =>
           /\ sim_state.is_running = ~call.before.is_running
           /\ sim_state.current_pop = call.before.current_pop
           /\ sim_state.year_counter = call.before.year_counter
           /\ sim_state.history_j = call.before.history_j
           /\ sim_state.history_s = call.before.history_s
           /\ sim_state.history_a = call.before.history_a
           /\ sim_state.history_tot = call.before.history_tot
           /\ sim_state.time = call.before.time
    /\ toggle(toggle(sim_state)) = sim_state

\* Play/Pause paused a Running driver that had stepped
C5_Witness ==
    /\ call.op = "toggle_play"
    /\ call.before.is_running
    /\ ~sim_state.is_running
    /\ sim_state.year_counter > 0

\* C6: the driver starts Paused, a timer tick that finds it Paused changes
\* nothing of it, and a tick that changed it found it Running.
C6_PausedTickIsNoOp ==
    /\ call.op = "init" => ~sim_state.is_running
    /\ (call.op = "animate" /\ ~call.before.is_running) =>
           sim_state = call.before
    /\ (call.op = "animate" /\ sim_state /= call.before) =>
           call.before.is_running

\* a tick arrived at a driver paused after it had stepped
C6_Witness ==
    /\ call.op = "animate"
    /\ ~call.before.is_running
    /\ call.before.year_counter > 0
    /\ sim_state = call.before

\* C7: the history has one entry more than steps were taken since the last
\* reset, a step appends one entry to each list and leaves the earlier
\* entries as they were, and only reset makes a list shorter.
C7_HistoryAppendOnly ==
    /\ Len(sim_state.history_j) = 1 + sim_state.year_counter
    /\ call.stepped => Appended(sim_state, call.before)
    /\ Shrunk(sim_state, call.before) => call.op = "reset_sim"

\* the second step in a row has been taken
C7_Witness ==
    /\ call.stepped
    /\ call.before.year_counter >= 1
    /\ Len(sim_state.history_j) = Len(call.before.history_j) + 1
    /\ Len(sim_state.history_j) >= 3

\* C8: a step gives the next vector it would give with the run flag the
\* other way round, adds 1 to the step counter, appends (counter, next) to
\* the history, makes next the current vector and leaves the run flag alone.
C8_StepStateAgnostic ==
    call.op = "step" =>
        LET b == call.before
            next == sim_state.current_pop
            other == step([b EXCEPT !.is_running = ~b.is_running],
                          call.args[1], call.args[2], call.args[3], call.mode)
        IN  /\ next = other.current_pop
            /\ sim_state.year_counter = b.year_counter + 1
            /\ sim_state.history_j = Append(b.history_j, next[1])
            /\ sim_state.history_s = Append(b.history_s, next[2])
            /\ sim_state.history_a = Append(b.history_a, next[3])
            /\ sim_state.time = Append(b.time, sim_state.year_counter)
            /\ sim_state.is_running = b.is_running

\* step was called on a Paused driver and moved it
C8_Witness ==
    /\ call.op = "step"
    /\ ~call.before.is_running
    /\ ~sim_state.is_running
    /\ call.mode \in Modes
    /\ sim_state.current_pop /= call.before.current_pop
    /\ sim_state.year_counter = call.before.year_counter + 1

\* C9 as the specification states it: a step with a mode that is none of the
\* three is rejected and leaves the simulation state as it was.
C9_UnknownModeRejected ==
    (call.op = "step" /\ call.mode \notin Modes) => sim_state = call.before

\* C10: entry t of history_tot is the sum of entry t of the three stage
\* lists, for every t, in every state.
C10_TotalIsSum ==
    /\ Len(sim_state.history_tot) = Len(sim_state.history_j)
    /\ Len(sim_state.history_tot) = Len(sim_state.history_s)
    /\ Len(sim_state.history_tot) = Len(sim_state.history_a)
    /\ \A t \in 1..Len(sim_state.history_tot) :
           sim_state.history_tot[t] = Sum3(Entry(sim_state, t))

\* two steps, a harvest among them, have been recorded
C10_Witness ==
    /\ Len(sim_state.history_tot) >= 3
    /\ sim_state.history_tot[3] /= sim_state.history_tot[2]
    /\ sim_state.history_tot[2] /= sim_state.history_tot[1]

\* C11: changing the tick rate, changing the harvest mode, moving a
\* harvest slider and submitting a text box leave the current vector, the
\* history, the step counter and the run flag as they were.
C11_ControlsLeaveSimulation ==
    call.op \in {"update_speed", "change_mode", "sync_text", "submit_text"} =>
        sim_state = call.before

\* the harvest mode was changed on a Running driver that had stepped
C11_Witness ==
    /\ call.op = "change_mode"
    /\ radio = ConstantQuota
    /\ sim_state.is_running
    /\ sim_state.year_counter > 0
    /\ s_speed = 10

\* C12: from every reachable state, reset() applied twice gives the state
\* that reset() applied once gives, and a reset of a driver that has just
\* been reset changes nothing of it.
C12_ResetIdempotent ==
    /\ reset(reset(sim_state)) = reset(sim_state)
    /\ call.op = "reset_sim" => reset(sim_state) = sim_state

\* the Reset button was pressed on a driver that was already reset
C12_Witness ==
    /\ call.op = "reset_sim"
    /\ call.before = sim_state
    /\ plot.status = "PAUSED"
    /\ reset(sim_state) = sim_state

\* C13: with harvest parameters (0, 0, 0) one step from any stage vector the
\* driver reaches gives the same next vector in all three modes, in step and
\* in one year of run_simulation.
C13_ZeroHarvestModesAgree ==
    /\ \A m1, m2 \in Modes :
           /\ step(sim_state, 0, 0, 0, m1).current_pop
                = step(sim_state, 0, 0, 0, m2).current_pop
           /\ run_progression(run_survivors(sim_state.current_pop, 0, 0, 0, m1))
                = run_progression(
                      run_survivors(sim_state.current_pop, 0, 0, 0, m2))
    /\ (call.op = "step" /\ call.args = <<0, 0, 0>> /\ call.mode \in Modes) =>
           \A m \in Modes :
               sim_state.current_pop
                 = step(call.before, 0, 0, 0, m).current_pop

\* a Proportional step with rate 0 was taken from a vector that an earlier
\* harvest had changed
C13_Witness ==
    /\ call.op = "step"
    /\ call.args = <<0, 0, 0>>
    /\ call.mode = Proportional
    /\ call.before.year_counter > 0
    /\ call.before.current_pop[1] /= call.before.current_pop[2]
    /\ NonNegative(call.before.current_pop)
    /\ sim_state.current_pop
         = step(call.before, 0, 0, 0, ConstantQuota).current_pop
    /\ sim_state.current_pop /= <<0, 0, 0>>

\* C14: in Proportional mode a step and a batch projection give the same
\* result whatever the second and the third harvest parameter are.
C14_ProportionalIgnoresSlots ==
    /\ (call.op = "step" /\ call.mode = Proportional) =>
           \A val_s, val_a \in {0, Half, Scale} :
               sim_state = step(call.before, call.args[1], val_s, val_a,
                                Proportional)
    /\ (call.op = "run_simulation" /\ call.mode = Proportional) =>
           \A val_s, val_a \in {0, Half, Scale} :
               data = run_simulation(call.args[1], val_s, val_a, Proportional)

\* a Proportional step was taken with rate 0.5 and two other values in the
\* slots it does not read
C14_Witness ==
    /\ call.op = "step"
    /\ call.mode = Proportional
    /\ call.args = <<Half, 0, Scale>>
    /\ sim_state.current_pop /= <<0, 0, 0>>
    /\ sim_state = step(call.before, Half, Scale, 0, Proportional)

\* C15: from the configured initial vector (1000, 500, 200), one Selective
\* step with harvest (0, 0, 0) yields (900, 500, 510) and one Constant Quota
\* step with harvest (100, 0, 0) yields (900, 450, 510).
C15_ConcreteScenarios ==
    /\ InitialVector = <<1000 * Scale, 500 * Scale, 200 * Scale>>
    /\ step(reset(sim_state), 0, 0, 0, Selective).current_pop
           = <<900 * Scale, 500 * Scale, 510 * Scale>>
    /\ step(reset(sim_state), 100 * Scale, 0, 0, ConstantQuota).current_pop
           = <<900 * Scale, 450 * Scale, 510 * Scale>>
    /\ (/\ call.op = "step"
        /\ call.before.current_pop = InitialVector
        /\ call.mode = Selective
        /\ call.args = <<0, 0, 0>>)
           => sim_state.current_pop
                  = <<900 * Scale, 500 * Scale, 510 * Scale>>
    /\ (/\ call.op = "step"
        /\ call.before.current_pop = InitialVector
        /\ call.mode = ConstantQuota
        /\ call.args = <<100 * Scale, 0, 0>>)
           => sim_state.current_pop
                  = <<900 * Scale, 450 * Scale, 510 * Scale>>

\* the Constant Quota scenario has been stepped from the initial vector
C15_Witness ==
    /\ call.op = "step"
    /\ call.before.current_pop = InitialVector
    /\ call.before.year_counter = 0
    /\ call.mode = ConstantQuota
    /\ call.args = <<100 * Scale, 0, 0>>
    /\ sim_state.current_pop = <<900 * Scale, 450 * Scale, 510 * Scale>>
    /\ sim_state.year_counter = 1

\* the valid domain of the harvest parameters of a mode: counts in [0, 800]
\* for Constant Quota, a rate in [0, 1] in the first slot for Proportional
\* and in every slot for Selective
InDomain(args, mode) ==
    IF mode = ConstantQuota
    THEN \A k \in 1..3 : 0 <= args[k] /\ args[k] <= 800 * Scale
    ELSE IF mode = Proportional
    THEN 0 <= args[1] /\ args[1] <= Scale
    ELSE \A k \in 1..3 : 0 <= args[k] /\ args[k] <= Scale

\* C16: every run_simulation call that update_simulation makes, those made
\* while change_mode resets the sliders included, receives harvest
\* parameters inside the valid domain of the mode it is called with.
C16_BatchCallsInRange ==
    call.op = "run_simulation" => InDomain(call.args, call.mode)

\* C17: every step a timer tick invokes receives, in each slot its mode
\* reads, a value inside the domain of that mode, and between callbacks the
\* sliders hold such values for the selected mode.
C17_TicksInRange ==
    /\ (call.op = "animate" /\ call.stepped) => InDomain(call.args, call.mode)
    /\ InDomain(s_val, radio)
    /\ \A i \in 1..3 : 0 <= s_val[i] /\ s_val[i] <= s_valmax[i]

\* a Proportional tick at rate 1 after Constant Quota: sliders 2 and 3 kept
\* the range 800 and stand at 800, in slots the mode does not read
C17_Witness ==
    /\ call.op = "animate"
    /\ call.stepped
    /\ call.mode = Proportional
    /\ call.args = <<Scale, 800 * Scale, 800 * Scale>>
    /\ s_valmax = <<Scale, 800 * Scale, 800 * Scale>>
    /\ sim_state.year_counter > 0

\* C18: the five lists of the driver have one length, time lists the years
\* 0, 1, 2, ... in order, the step counter is that length minus one, and the
\* current vector is the last entry of the three stage lists.
C18_ListsConsistent ==
    LET n == Len(sim_state.time)
    IN  /\ n >= 1
        /\ Len(sim_state.history_j) = n
        /\ Len(sim_state.history_s) = n
        /\ Len(sim_state.history_a) = n
        /\ Len(sim_state.history_tot) = n
        /\ \A t \in 1..n : sim_state.time[t] = t - 1
        /\ sim_state.year_counter = n - 1
        /\ sim_state.current_pop = Entry(sim_state, n)

\* two ticks have stepped the driver and the plot shows the three points
C18_Witness ==
    /\ call.op = "animate"
    /\ call.stepped
    /\ sim_state.time = <<0, 1, 2>>
    /\ sim_state.year_counter = 2
    /\ Entry(sim_state, 1) = InitialVector
    /\ sim_state.current_pop /= Entry(sim_state, 2)
    /\ plot.points = 3

\* C19: every callback chain of harvesting.py that a user action starts
\* ends; a text the slider handler writes under the flag causes no further
\* Slider.set_val; the flag is clear whenever no callback is in progress; and
\* one slider change (by the mouse or by a submitted number) recomputes the
\* projection exactly once, a mode change four times.
C19_EchoSuppressionTerminates ==
    /\ [](h_Idle => ~h_updating_from_slider)
    /\ [](h_chain.echo_set_vals = 0)
    /\ [](Len(h_stack) <= 3)
    /\ []((h_Idle /\ h_chain.origin = "slider") => h_chain.runs = 1)
    /\ []((h_Idle /\ h_chain.origin = "text") => h_chain.runs \in {0, 1})
    /\ []((h_Idle /\ h_chain.origin = "mode") => h_chain.runs = 4)
    /\ (~h_Idle ~> h_Idle)

\* a slider change has run to its end: one projection, the text boxes
\* rewritten, their submit_text stopped by the flag, the flag clear again
C19_Witness ==
    /\ h_Idle
    /\ h_chain.origin = "slider"
    /\ h_chain.runs = 1
    /\ h_chain.suppressed >= 1
    /\ ~h_updating_from_slider
    /\ h_text[2] = FormatInt(h_val[2])
    /\ h_val[2] = 2 * Scale

\* the driver without its run flag: vector, counter and the five lists
SimData(self) == [self EXCEPT !.is_running = FALSE]

\* C20: a Running driver whose ticks keep arriving gets past every year N
\* unless it is paused or reset; a paused driver keeps its vector, counter and
\* lists until it is reset, resuming changes the run flag alone, and the tick
\* after it steps from exactly that state.
C20_SteppingAndResume ==
    /\ \A n \in 0..(MaxSteps - 1) :
           (sim_state.is_running /\ sim_state.year_counter = n)
               ~> (~sim_state.is_running \/ sim_state.year_counter > n)
    /\ [][(~sim_state.is_running /\ call'.op /= "reset_sim")
              => SimData(sim_state') = SimData(sim_state)]_vars
    /\ []((call.op = "toggle_play" /\ sim_state.is_running)
              => sim_state = [call.before EXCEPT !.is_running = TRUE])
    /\ []((call.op = "animate" /\ call.stepped)
              => sim_state = step(call.before, call.args[1], call.args[2],
                                  call.args[3], call.mode))

\* a driver that ran for a year and was paused has just been resumed: it is
\* Running with the vector, counter and lists it was paused with, and the
\* next tick is due
C20_Witness ==
    /\ call.op = "toggle_play"
    /\ ~call.before.is_running
    /\ sim_state.is_running
    /\ sim_state.year_counter = MaxSteps - 1
    /\ sim_state.year_counter > 0
    /\ SimData(sim_state) = SimData(call.before)
    /\ ENABLED animate

====
